---------------------------- MODULE Spec2Model ----------------------------
(***************************************************************************)
(* Model of the Analytics MCP server (src/main.py): the upstream client    *)
(* call_mcp_tool, the three tool handlers analisis_360,                    *)
(* proyeccion_pendientes and resumen_rapido, and the dispatcher            *)
(* execute_tool.                                                           *)
(*                                                                         *)
(* Texts are sequences of tokens.  The marker '---JSON_DATA---' is one     *)
(* token; a JSON object is serialised as  { "chars" members }  where the   *)
(* optional quoted part is the object's string field and `members' is one  *)
(* token carrying the remaining (numeric) fields.  Python floats are       *)
(* modelled by exact rationals [n |-> numerator, d |-> denominator].       *)
(***************************************************************************)
EXTENDS Integers, Sequences, FiniteSets, TLC

VARIABLES
    pc,       \* position of the running coroutine
    name,     \* execute_tool's tool name
    args,     \* execute_tool's arguments
    calls,    \* the upstream calls issued so far, in order (tool names)
    loc,      \* the handler's local variables
    result,   \* what execute_tool gave back
    reply,    \* call_mcp_tool: the raw upstream reply
    rec,      \* call_mcp_tool: the record returned
    sessions, \* the registry `sessions': session id -> the session's queue
    streams,  \* the session ids whose SSE stream is open
    http      \* messages_endpoint: the POST being handled and its answer

vars == <<pc, name, args, calls, loc, result, reply, rec, sessions, streams, http>>

(***************************************************************************)
(* Bounds of the model                                                     *)
(***************************************************************************)
MaxResultLen == 5      \* longest upstream result text, in tokens

(***************************************************************************)
(* Tokens and values                                                       *)
(***************************************************************************)
None == [none |-> TRUE]                 \* Python's None
Idle == [idle |-> TRUE]                 \* a variable the specification does not use

MARKER == [t |-> "---JSON_DATA---"]
Txt    == [t |-> "txt"]                 \* a character of prose
Ws     == [t |-> "ws"]                  \* whitespace
LBrace == [t |-> "{"]
RBrace == [t |-> "}"]
Quote  == [t |-> "\""]
Val(v) == [t |-> "val", v |-> v]        \* the serialised members of an object

IsVal(tok) == tok.t = "val"

(***************************************************************************)
(* str.split(sep), str.strip(), the `in' test                              *)
(***************************************************************************)
Contains(s, tok) == \E i \in 1..Len(s) : s[i] = tok

FirstIndex(s, tok) == CHOOSE i \in 1..Len(s) : s[i] = tok /\ \A j \in 1..(i-1) : s[j] # tok

RECURSIVE Split(_, _)
Split(s, sep) ==
    IF ~Contains(s, sep) THEN <<s>>
    ELSE LET i == FirstIndex(s, sep)
         IN  <<SubSeq(s, 1, i-1)>> \o Split(SubSeq(s, i+1, Len(s)), sep)

RECURSIVE Strip(_)
Strip(s) ==
    IF s = <<>> THEN s
    ELSE IF Head(s) = Ws THEN Strip(Tail(s))
    ELSE IF s[Len(s)] = Ws THEN Strip(SubSeq(s, 1, Len(s)-1))
    ELSE s

(***************************************************************************)
(* json.dumps / json.loads on objects                                      *)
(***************************************************************************)
Without(obj, k) == [f \in DOMAIN obj \ {k} |-> obj[f]]

JsonDumps(obj) ==
    <<LBrace>>
    \o (IF "period" \in DOMAIN obj THEN <<Quote>> \o obj.period \o <<Quote>> ELSE <<>>)
    \o <<Val(Without(obj, "period"))>>
    \o <<RBrace>>

\* [ok |-> FALSE] when json.loads raises, else [ok |-> TRUE, value |-> the object]
JsonLoads(s) ==
    LET n == Len(s)
    IN  IF n = 3 /\ s[1] = LBrace /\ IsVal(s[2]) /\ s[3] = RBrace
            THEN [ok |-> TRUE, value |-> s[2].v]
        ELSE IF /\ n >= 5 /\ s[1] = LBrace /\ s[2] = Quote /\ s[n-2] = Quote
                /\ IsVal(s[n-1]) /\ s[n] = RBrace
                /\ \A i \in 3..(n-3) : s[i] \notin {Quote, LBrace, RBrace} /\ ~IsVal(s[i])
            THEN [ok |-> TRUE, value |-> s[n-1].v @@ [period |-> SubSeq(s, 3, n-3)]]
        ELSE [ok |-> FALSE]

(***************************************************************************)
(* call_mcp_tool                                                           *)
(***************************************************************************)
Record(success, text, data, error) ==
    [success |-> success, text |-> text, data |-> data, error |-> error]

Raised == [raised |-> TRUE]             \* an exception leaving a block

\* lines 55-65: the structured section, or the plain text
ExtractJsonData(resultText) ==
    IF Contains(resultText, MARKER)
    THEN LET parts == Split(resultText, MARKER)
             parsed == JsonLoads(Strip(parts[2]))
         IN  IF Len(parts) > 1 /\ parsed.ok
             THEN Record(TRUE, Strip(parts[1]), parsed.value, "")
             ELSE Record(TRUE, resultText, None, "")
    ELSE Record(TRUE, resultText, None, "")

\* lines 43-67: the body of the try block
CallMcpToolTry(r) ==
    IF r.kind = "exception" THEN Raised                  \* client.post raises
    ELSE IF r.status = 200
         THEN IF r.body = "nonjson" THEN Raised          \* response.json() raises
              ELSE IF r.body = "nonobject" THEN Raised   \* data.get raises
              ELSE ExtractJsonData(r.result)
         ELSE Record(FALSE, <<>>, None, "HTTP")

CallMcpToolNoExcept(r) == CallMcpToolTry(r)

\* lines 40-69
CallMcpTool(r) ==
    LET got == CallMcpToolTry(r)
    IN  IF got = Raised THEN Record(FALSE, <<>>, None, "exception") ELSE got

(***************************************************************************)
(* Specification SpecCall: call_mcp_tool applied to every raw reply        *)
(***************************************************************************)
Payloads == {[x |-> 1], [x |-> 2]}

ResultTokens == {Txt, Ws, MARKER, LBrace, RBrace} \cup {Val(v) : v \in Payloads}

ResultTexts == UNION {[1..n -> ResultTokens] : n \in 0..MaxResultLen}

Reply(kind, status, body, resultText) ==
    [kind |-> kind, status |-> status, body |-> body, result |-> resultText]

RawReplies ==
    {Reply("exception", 0, "nonjson", <<>>), Reply("http", 500, "nonjson", <<>>),
     Reply("http", 404, "object", <<>>),
     Reply("http", 200, "nonjson", <<>>), Reply("http", 200, "nonobject", <<>>)}
    \cup {Reply("http", 200, "object", r) : r \in ResultTexts}

InitCall ==
    /\ pc = "call"
    /\ reply \in RawReplies
    /\ rec = Idle
    /\ sessions = Idle /\ streams = Idle /\ http = Idle
    /\ name = Idle /\ args = Idle /\ calls = <<>> /\ loc = Idle /\ result = Idle

CallMcpToolStep ==
    /\ pc = "call"
    /\ rec' = CallMcpTool(reply)
    /\ pc' = "called"
    /\ UNCHANGED <<name, args, calls, loc, result, reply,
                 sessions, streams, http>>

NextCall == CallMcpToolStep

SpecCall == InitCall /\ [][NextCall]_vars

(***************************************************************************)
(* Numbers: exact rationals for Python's float divisions                   *)
(***************************************************************************)
Abs(a) == IF a < 0 THEN 0 - a ELSE a

RECURSIVE Gcd(_, _)
Gcd(a, b) == IF b = 0 THEN a ELSE Gcd(b, a % b)

\* the rational n / d in lowest terms, d > 0
Rat(n, d) ==
    LET g == Gcd(Abs(n), d)
    IN  IF g = 0 THEN [n |-> n, d |-> d] ELSE [n |-> n \div g, d |-> d \div g]
Zero == Rat(0, 1)
Div(a, b) == IF b > 0 THEN Rat(a, b) ELSE Rat(0 - a, 0 - b)   \* a / b, b # 0
Times(q, k) == Rat(q.n * k, q.d)
RatEq(p, q) == p.n * q.d = q.n * p.d
RatLe(p, q) == p.n * q.d <= q.n * p.d
RatLt(p, q) == p.n * q.d < q.n * p.d
RatSub(p, q) == Rat(p.n * q.d - q.n * p.d, p.d * q.d)
\* a / b for two Python numbers held as rationals
RatDiv(p, q) == Div(p.n * q.d, p.d * q.n)

Floor(q) == q.n \div q.d

\* round-half-even of q to an integer, as format(x, ".0f") and round(x) do
RoundHalfEven(q) ==
    LET f == Floor(q)
        twice == 2 * (q.n - f * q.d)      \* 2 * fractional part * d
    IN  IF twice < q.d THEN f
        ELSE IF twice > q.d THEN f + 1
        ELSE IF f % 2 = 0 THEN f ELSE f + 1

\* round(x, 2), in hundredths
Round2(q) == RoundHalfEven(Times(q, 100))

RECURSIVE Sum(_)
Sum(s) == IF s = <<>> THEN 0 ELSE Head(s) + Sum(Tail(s))

Max(a, b) == IF a > b THEN a ELSE b

\* dict.get(k, default)
Get(o, k, default) == IF k \in DOMAIN o THEN o[k] ELSE default

(***************************************************************************)
(* Order statuses                                                          *)
(***************************************************************************)
\* str.upper() on the status strings of the model
Upper(st) ==
    CASE st = "entregado" -> "ENTREGADO"
      [] st = "devuelto"  -> "DEVUELTO"
      [] st = "pendiente" -> "PENDIENTE"
      [] OTHER -> st

\* (order.get("status") or "").upper()
StatusOf(o) == Upper(Get(o, "status", ""))

\* lines 233-240 and 253-260: the bucket a status falls in
Bucket(st) ==
    IF st \in {"ENTREGADO", "DELIVERED", "COMPLETADO"} THEN "entregados"
    ELSE IF st \in {"DEVOLUCION", "DEVUELTO", "RETURNED", "NO ENTREGADO"} THEN "devoluciones"
    ELSE IF st \in {"CANCELADO", "CANCELLED"} THEN "cancelados"
    ELSE "pendientes"

InEntregados(o)   == Bucket(StatusOf(o)) = "entregados"
InDevoluciones(o) == Bucket(StatusOf(o)) = "devoluciones"
InCancelados(o)   == Bucket(StatusOf(o)) = "cancelados"
InPendientes(o)   == Bucket(StatusOf(o)) = "pendientes"

\* lines 225-231: order_info of a financial-detail row
DetailInfo(o) ==
    [id |-> Get(o, "order_id", 0), profit |-> Get(o, "profit", 0),
     shipping_cost |-> Get(o, "shipping_cost", 0), paid |-> Get(o, "paid", FALSE),
     payment_amount |-> Get(o, "payment_amount", 0)]

\* lines 246-251: order_info of a basic Dropi order
BasicInfo(o) ==
    [id |-> Get(o, "id", 0), profit |-> Get(o, "profit", 0),
     shipping_cost |-> 0, paid |-> FALSE]

DetailInfos(s) == [i \in 1..Len(s) |-> DetailInfo(s[i])]
BasicInfos(s) == [i \in 1..Len(s) |-> BasicInfo(s[i])]

HasId(o) == Get(o, "id", 0) # 0
IdOf(o) == o.id
Ids(s) == [i \in 1..Len(s) |-> IdOf(s[i])]

OrderIdsNone(orders) == <<>>

\* line 208 / 472: [o.get("id") for o in orders if o.get("id")]
OrderIds(orders) == Ids(SelectSeq(orders, HasId))

BatchLimit == 50
\* order_ids[:50]
Batch(ids) == SubSeq(ids, 1, IF Len(ids) < BatchLimit THEN Len(ids) ELSE BatchLimit)

\* lines 223-240: the detail loop appends to the four buckets
DetailLoop(b, rows) ==
    [entregados   |-> b.entregados   \o DetailInfos(SelectSeq(rows, InEntregados)),
     devoluciones |-> b.devoluciones \o DetailInfos(SelectSeq(rows, InDevoluciones)),
     cancelados   |-> b.cancelados   \o DetailInfos(SelectSeq(rows, InCancelados)),
     pendientes   |-> b.pendientes   \o DetailInfos(SelectSeq(rows, InPendientes))]

\* lines 243-260: the basic-data loop, when no bucket but cancelados was filled
BasicLoop(b, orders) ==
    IF b.entregados = <<>> /\ b.devoluciones = <<>> /\ b.pendientes = <<>>
    THEN [entregados   |-> b.entregados   \o BasicInfos(SelectSeq(orders, InEntregados)),
          devoluciones |-> b.devoluciones \o BasicInfos(SelectSeq(orders, InDevoluciones)),
          cancelados   |-> b.cancelados   \o BasicInfos(SelectSeq(orders, InCancelados)),
          pendientes   |-> b.pendientes   \o BasicInfos(SelectSeq(orders, InPendientes))]
    ELSE b

EmptyBuckets == [entregados |-> <<>>, devoluciones |-> <<>>, cancelados |-> <<>>,
                 pendientes |-> <<>>]

(***************************************************************************)
(* analisis_360: PASO 6, the metrics (lines 306-338)                       *)
(***************************************************************************)
ProfitOf(o)   == Get(o, "profit", 0)
ShippingOf(o) == Get(o, "shipping_cost", 0)
PaymentOf(o)  == Get(o, "payment_amount", 0)
IsPaid(o)     == Get(o, "paid", FALSE)
NotPaid(o)    == ~IsPaid(o)

\* the generators under sum(...)
Profits(s)   == [i \in 1..Len(s) |-> ProfitOf(s[i])]
Shippings(s) == [i \in 1..Len(s) |-> ShippingOf(s[i])]
Payments(s)  == [i \in 1..Len(s) |-> PaymentOf(s[i])]

FleteDefault == 23       \* line 324, line 489
GananciaDefault == 100   \* line 488

\* lines 321-325
FletesSinEstimacion(devoluciones) == Sum(Shippings(devoluciones))

FletesDevoluciones(devoluciones) ==
    LET fletes == Sum(Shippings(devoluciones))
    IN  IF fletes = 0 /\ Len(devoluciones) > 0
        THEN Len(devoluciones) * FleteDefault
        ELSE fletes

\* lines 307-309
TasaCancelacion(total, shopify) ==
    IF shopify > 0 THEN Div(total * 100, shopify) ELSE Zero

\* line 338
TasaEntregaFraccion(entregados, dropi) ==
    IF dropi > 0 THEN Div(entregados, dropi) ELSE Zero

TasaEntrega(entregados, dropi) ==
    IF dropi > 0 THEN Div(entregados * 100, dropi) ELSE Zero

\* line 336
Roas(ganancia, spend) == IF spend > 0 THEN Div(ganancia, spend) ELSE Zero

\* line 337
CpaReal(spend, entregados) == IF entregados > 0 THEN Div(spend, entregados) ELSE Zero

Metrics(l) ==
    LET cancelaciones_pre_envio == Max(0, l.shopify_orders_count - l.dropi_orders_count)
        cancelaciones_total == cancelaciones_pre_envio + Len(l.cancelados)
        ganancia_entregados == Sum(Profits(l.entregados))
        pagados == SelectSeq(l.entregados, IsPaid)
        no_pagados == SelectSeq(l.entregados, NotPaid)
        fletes_devoluciones == FletesDevoluciones(l.devoluciones)
        ganancia_confirmada == ganancia_entregados - fletes_devoluciones
    IN  [cancelaciones_pre_envio |-> cancelaciones_pre_envio,
         cancelaciones_total |-> cancelaciones_total,
         tasa_cancelacion |-> TasaCancelacion(cancelaciones_total, l.shopify_orders_count),
         ganancia_entregados |-> ganancia_entregados,
         pagados |-> Len(pagados),
         no_pagados |-> Len(no_pagados),
         monto_pagado |-> Sum(Payments(pagados)),
         monto_pendiente_pago |-> Sum(Profits(no_pagados)),
         fletes_devoluciones |-> fletes_devoluciones,
         ganancia_potencial_pendientes |-> Sum(Profits(l.pendientes)),
         fletes_potenciales_pendientes |-> Sum(Shippings(l.pendientes)),
         ganancia_confirmada |-> ganancia_confirmada,
         profit_neto |-> ganancia_confirmada - l.meta_spend,
         roas |-> Roas(ganancia_confirmada, l.meta_spend),
         cpa_real |-> CpaReal(l.meta_spend, Len(l.entregados)),
         tasa_entrega |-> TasaEntrega(Len(l.entregados), l.dropi_orders_count)]

(***************************************************************************)
(* analisis_360: the report (lines 344-437)                                *)
(***************************************************************************)
Str(chars) == [str |-> chars]           \* a Python str
Digit == [t |-> "d"]                    \* a character of a date

\* line 146
PeriodLabel(start_date, end_date) ==
    IF start_date # end_date
    THEN start_date.str \o <<Txt>> \o end_date.str
    ELSE start_date.str

\* lines 410-433; amounts are whole units, round(x, 2) of a rate is in hundredths
JsonData(period_label, l, m) ==
    [period |-> period_label,
     shopify_orders |-> l.shopify_orders_count,
     dropi_orders |-> l.dropi_orders_count,
     cancelaciones_pre_envio |-> m.cancelaciones_pre_envio,
     cancelados_dropi |-> Len(l.cancelados),
     tasa_cancelacion |-> Round2(m.tasa_cancelacion),
     entregados |-> Len(l.entregados),
     devoluciones |-> Len(l.devoluciones),
     pendientes |-> Len(l.pendientes),
     tasa_entrega |-> Round2(m.tasa_entrega),
     ganancia_entregados |-> m.ganancia_entregados,
     fletes_devoluciones |-> m.fletes_devoluciones,
     ganancia_confirmada |-> m.ganancia_confirmada,
     monto_pagado |-> m.monto_pagado,
     monto_pendiente_pago |-> m.monto_pendiente_pago,
     meta_spend |-> l.meta_spend,
     roas |-> Round2(m.roas),
     cpa_real |-> Round2(m.cpa_real),
     profit_neto |-> m.profit_neto,
     pendientes_ganancia_potencial |-> m.ganancia_potencial_pendientes,
     pendientes_fletes_potenciales |-> m.fletes_potenciales_pendientes,
     currency |-> "Q"]

\* lines 344-435: the narrative (it names the period), the marker, the JSON
ReportText(period_label, json_data) ==
    <<Ws, Txt>> \o period_label \o <<Ws, Txt, Ws, Ws, MARKER, Ws>> \o JsonDumps(json_data)

(***************************************************************************)
(* proyeccion_pendientes: the projection (lines 463-570)                   *)
(***************************************************************************)
RatAdd(p, q) == Rat(p.n * q.d + q.n * p.d, p.d * q.d)
RatPos(q) == q.n > 0

EstadosPendientes ==
    {"PENDIENTE", "GUIA_GENERADA", "RECOLECTADO", "EN_RUTA", "EN BODEGA", "EN TRANSITO"}

\* lines 465-466
EsPendiente(o) ==
    \/ StatusOf(o) \in EstadosPendientes
    \/ StatusOf(o) \notin {"ENTREGADO", "DEVOLUCION", "CANCELADO"}

ProfitOr100(o)  == Get(o, "profit", GananciaDefault)
ShippingOr23(o) == Get(o, "shipping_cost", FleteDefault)
ProfitsOr100(s)  == [i \in 1..Len(s) |-> ProfitOr100(s[i])]
ShippingsOr23(s) == [i \in 1..Len(s) |-> ShippingOr23(s[i])]

\* line 565
PuntoEquilibrio(total, ganancia_promedio, flete_promedio) ==
    RatDiv(Times(flete_promedio, total), RatAdd(ganancia_promedio, flete_promedio))

\* line 569: the count printed by {punto_equilibrio:.0f}
PedidosEquilibrio(punto) == RoundHalfEven(punto)

\* line 560
HayEquilibrioSoloGanancia(ganancia_promedio, flete_promedio) == RatPos(ganancia_promedio)

HayEquilibrio(ganancia_promedio, flete_promedio) ==
    RatPos(ganancia_promedio) /\ RatPos(flete_promedio)

\* lines 487-492
TotalPendientes(pendientes, detalle) ==
    IF detalle = <<>> THEN Len(pendientes) ELSE Len(detalle)

\* lines 487-570; `divisions' counts the divisions of lines 565-566
Projection(pendientes, detalle) ==
    LET total_pendientes == TotalPendientes(pendientes, detalle)
        total_ganancia == IF detalle # <<>> THEN Sum(ProfitsOr100(detalle))
                          ELSE Len(pendientes) * GananciaDefault
        total_fletes == IF detalle # <<>> THEN Sum(ShippingsOr23(detalle))
                        ELSE Len(pendientes) * FleteDefault
        ganancia_promedio == IF total_pendientes > 0
                             THEN Div(total_ganancia, total_pendientes) ELSE Zero
        flete_promedio == IF total_pendientes > 0
                          THEN Div(total_fletes, total_pendientes) ELSE Zero
        hay == HayEquilibrio(ganancia_promedio, flete_promedio)
        punto == PuntoEquilibrio(total_pendientes, ganancia_promedio, flete_promedio)
    IN  [total_pendientes |-> total_pendientes,
         total_ganancia_potencial |-> total_ganancia,
         total_fletes_potenciales |-> total_fletes,
         ganancia_promedio |-> ganancia_promedio,
         flete_promedio |-> flete_promedio,
         escenario_100 |-> total_ganancia,
         escenario_0 |-> 0 - total_fletes,
         hay_equilibrio |-> hay,
         punto_equilibrio |-> IF hay THEN punto ELSE Zero,
         pedidos_equilibrio |-> IF hay THEN PedidosEquilibrio(punto) ELSE 0,
         divisions |-> IF hay THEN 2 ELSE 0]

PyInt(n) == [int |-> n]                 \* a Python int sent by the caller

\* lines 525 and 537: int(total_pendientes * 0.8), int(total_pendientes * 0.6)
EntregasPorcentaje(total, decimas) == (total * decimas) \div 10

\* lines 527-529, 539-541, 550-552
EscenarioNeto(entregas, devoluciones, ganancia_promedio, flete_promedio) ==
    RatSub(Times(ganancia_promedio, entregas), Times(flete_promedio, devoluciones))

\* lines 524-546
EscenarioFijo(total, decimas, ganancia_promedio, flete_promedio) ==
    LET entregas == EntregasPorcentaje(total, decimas)
        devoluciones == total - entregas
    IN  [entregas |-> entregas, devoluciones |-> devoluciones,
         neto |-> EscenarioNeto(entregas, devoluciones, ganancia_promedio, flete_promedio)]

\* lines 445-446 and 548-557: <<>> when the caller's scenario is not printed
EscenarioCustom(a, ganancia_promedio, flete_promedio) ==
    LET escenario_entregas == Get(a, "escenario_entregas", None)
        escenario_devoluciones == Get(a, "escenario_devoluciones", None)
    IN  IF escenario_entregas # None /\ escenario_devoluciones # None
        THEN <<[entregas |-> escenario_entregas.int,
                devoluciones |-> escenario_devoluciones.int,
                neto |-> EscenarioNeto(escenario_entregas.int, escenario_devoluciones.int,
                                       ganancia_promedio, flete_promedio)]>>
        ELSE <<>>

\* lines 524-557
Escenarios(a, p) ==
    [e80 |-> EscenarioFijo(p.total_pendientes, 8, p.ganancia_promedio, p.flete_promedio),
     e60 |-> EscenarioFijo(p.total_pendientes, 6, p.ganancia_promedio, p.flete_promedio),
     custom |-> EscenarioCustom(a, p.ganancia_promedio, p.flete_promedio)]

\* lines 501-570: the figures the text of the projection prints; the weighted
\* scenarios and the percentage it prints are functions of these
ProyeccionText(p) ==
    [total_pendientes |-> p.total_pendientes,
     ganancia_promedio |-> Round2(p.ganancia_promedio),
     flete_promedio |-> Round2(p.flete_promedio),
     escenario_100 |-> p.escenario_100,
     total_fletes_potenciales |-> p.total_fletes_potenciales,
     punto_equilibrio |-> IF p.hay_equilibrio THEN <<p.pedidos_equilibrio>> ELSE <<>>]

(***************************************************************************)
(* Specification Spec: execute_tool and the three handlers, one action per *)
(* awaited upstream call                                                   *)
(***************************************************************************)
MaxOrders == 2         \* longest Dropi order list of Spec

ToolNames == {"analisis_360", "proyeccion_pendientes", "resumen_rapido", "otra"}

\* lines 636-640
TOOL_HANDLERS == {"analisis_360", "proyeccion_pendientes", "resumen_rapido"}

StartDates == {None, Str(<<>>), Str(<<Digit>>)}
EndDates == {None, Str(<<>>), Str(<<Digit>>), Str(<<Digit, Digit>>)}

NotADict == [dict |-> FALSE]

ArgValues ==
    {NotADict} \cup
    {[dict |-> TRUE, start_date |-> a, end_date |-> b] : a \in StartDates, b \in EndDates}

\* `not value' for None and for a str
Falsy(v) == v = None \/ v = Str(<<>>)

\* line 143, line 448
MissingDatesStartOnly(a) == Falsy(a.start_date)

MissingDates(a) == Falsy(a.start_date) \/ Falsy(a.end_date)

InitLoc ==
    [failed |-> {}, nodata |-> {}, bad |-> FALSE,
     shopify_orders_count |-> 0, shopify_total_value |-> 0,
     dropi_orders_count |-> 0, dropi_orders |-> <<>>, order_ids |-> <<>>,
     entregados |-> <<>>, devoluciones |-> <<>>, pendientes |-> <<>>, cancelados |-> <<>>,
     total_wallet_income |-> 0, total_wallet_expenses |-> 0,
     meta_spend |-> 0, meta_clicks |-> 0, meta_impressions |-> 0,
     pendientes_detalle |-> <<>>, sections |-> <<>>]

\* the upstream's replies
FailReplies == {Reply("exception", 0, "nonjson", <<>>), Reply("http", 500, "nonjson", <<>>)}
TextReply(text) == Reply("http", 200, "object", text)
OkReply(data) == Reply("http", 200, "object", <<Txt, Ws, MARKER, Ws>> \o JsonDumps(data))
Pedidos(n) == [t |-> "pedidos", v |-> n]       \* the words "<n> pedidos"

ShopifyReplies ==
    FailReplies \cup {TextReply(<<Txt, Pedidos(2)>>)}
    \cup {OkReply([order_count |-> 3, total_sales |-> 30, numeric |-> TRUE])}
    \cup {OkReply([order_count |-> 0, total_sales |-> 0, numeric |-> FALSE])}

OrderStatuses == {"entregado", "DEVUELTO", "CANCELADO", "EN_RUTA"}

\* the order at position i of a Dropi list has id i; the first may have no id;
\* `flete' is the order's shipping cost as the upstream knows it
OrderAt(i, st) ==
    IF st = "" THEN [status |-> "EN_RUTA", profit |-> 40, flete |-> 15]
    ELSE [id |-> i, status |-> st, profit |-> 40, flete |-> 15]

StatusLists ==
    UNION {{sts \in [1..n -> OrderStatuses \cup {""}] : \A i \in 2..n : sts[i] # ""} :
              n \in 0..MaxOrders}

DropiOrderLists == {[i \in 1..Len(sts) |-> OrderAt(i, sts[i])] : sts \in StatusLists}

DropiReplies ==
    FailReplies \cup {TextReply(<<Txt>>)}
    \cup {OkReply([total_orders |-> 2, orders |-> os]) : os \in DropiOrderLists}

\* the upstream's detail row of the order with id i
FullRow(orders, i) ==
    [order_id |-> i, status |-> orders[i].status, profit |-> orders[i].profit,
     shipping_cost |-> orders[i].flete, paid |-> (i % 2 = 1),
     payment_amount |-> orders[i].profit]
BareRow(orders, i) == [order_id |-> i, status |-> orders[i].status]

FinancialReplies(orders, ids) ==
    FailReplies \cup {TextReply(<<Txt>>), OkReply([orders |-> <<>>]),
                      OkReply([orders |-> [k \in 1..Len(ids) |-> FullRow(orders, ids[k])]]),
                      OkReply([orders |-> [k \in 1..Len(ids) |-> BareRow(orders, ids[k])]])}

WalletReplies ==
    FailReplies \cup {TextReply(<<Txt>>),
                      OkReply([total_income |-> 500, total_expenses |-> 100])}

MetaReplies ==
    FailReplies \cup {TextReply(<<Txt>>)}
    \cup {OkReply([spend |-> sp, clicks |-> 10, impressions |-> 1000, numeric |-> TRUE]) :
             sp \in {0, 50}}
    \cup {OkReply([spend |-> 0, clicks |-> 0, impressions |-> 0, numeric |-> FALSE])}

\* what a handler hands to execute_tool
HandlerReturn(what, payload) == [raised |-> FALSE, what |-> what, payload |-> payload]
HandlerRaise == [raised |-> TRUE, what |-> "exception", payload |-> None]

\* lines 645-649
ExecuteToolNoTry(outcome) ==
    [returned |-> IF outcome.raised THEN "exception" ELSE "text",
     what |-> outcome.what, payload |-> outcome.payload]

ExecuteToolTry(outcome) ==
    IF outcome.raised
    THEN [returned |-> "text", what |-> "error_text", payload |-> None]
    ELSE [returned |-> "text", what |-> outcome.what, payload |-> outcome.payload]

\* line 650
NotFound == [returned |-> "text", what |-> "not_found", payload |-> None]

\* the bookkeeping of one awaited call_mcp_tool
Noted(l, fetch, r) ==
    [l EXCEPT !.failed = IF r.success THEN @ ELSE @ \cup {fetch},
              !.nodata = IF r.success /\ r.data = None THEN @ \cup {fetch} ELSE @]

Finish(outcome) ==
    /\ result' = ExecuteToolTry(outcome)
    /\ pc' = "done"

Init ==
    /\ pc = "execute_tool"
    /\ name \in ToolNames
    /\ args \in ArgValues
    /\ calls = <<>>
    /\ loc = InitLoc
    /\ result = Idle
    /\ reply = Idle
    /\ rec = Idle
    /\ sessions = Idle /\ streams = Idle /\ http = Idle

\* lines 642-650, with the handler's code before its first await
\* (lines 140-149, 443-449, 578-582)
ExecuteTool ==
    /\ pc = "execute_tool"
    /\ IF name \notin TOOL_HANDLERS
       THEN result' = NotFound /\ pc' = "done"
       ELSE IF name = "resumen_rapido"
       THEN pc' = "rr_shopify" /\ UNCHANGED result
       ELSE IF ~args.dict
       THEN Finish(HandlerRaise)
       ELSE IF MissingDates(args)
       THEN Finish(HandlerReturn("validation", None))
       ELSE /\ pc' = IF name = "analisis_360" THEN "a360_shopify" ELSE "pp_dropi"
            /\ UNCHANGED result
    /\ UNCHANGED <<name, args, calls, loc, reply, rec,
                 sessions, streams, http>>

\* lines 171-176: the count in front of the first "pedidos" of the text
PedidosInText(text) ==
    LET hits == SelectSeq(text, LAMBDA tok : tok.t = "pedidos")
    IN  IF hits = <<>> THEN 0 ELSE hits[1].v

\* lines 156-176
A360Shopify ==
    /\ pc = "a360_shopify"
    /\ \E raw \in ShopifyReplies :
        LET r == CallMcpTool(raw)
            l == Noted(loc, "get_sales_by_period", r)
        IN  loc' = IF r.success
                   THEN IF r.data # None
                        THEN [l EXCEPT !.shopify_orders_count =
                                           IF r.data.numeric THEN r.data.order_count ELSE 0,
                                       !.shopify_total_value =
                                           IF r.data.numeric THEN r.data.total_sales ELSE 0,
                                       !.bad = @ \/ ~r.data.numeric]
                        ELSE [l EXCEPT !.shopify_orders_count = PedidosInText(r.text)]
                   ELSE l
    /\ calls' = Append(calls, "get_sales_by_period")
    /\ pc' = "a360_dropi"
    /\ UNCHANGED <<name, args, result, reply, rec,
                 sessions, streams, http>>

\* the four buckets of l replaced by those of b
WithBuckets(l, b) ==
    [l EXCEPT !.entregados = b.entregados, !.devoluciones = b.devoluciones,
              !.cancelados = b.cancelados, !.pendientes = b.pendientes]

\* lines 183-211, and lines 243-260 when no order has an id
A360Dropi ==
    /\ pc = "a360_dropi"
    /\ \E raw \in DropiReplies :
        LET r == CallMcpTool(raw)
            l == Noted(loc, "get_dropi_orders", r)
            got == r.success /\ r.data # None
            orders == IF got THEN Get(r.data, "orders", <<>>) ELSE <<>>
            l2 == [l EXCEPT !.dropi_orders_count =
                                IF got THEN Get(r.data, "total_orders", 0) ELSE 0,
                            !.dropi_orders = orders,
                            !.order_ids = OrderIds(orders)]
        IN  IF OrderIds(orders) # <<>>
            THEN loc' = l2 /\ pc' = "a360_financial"
            ELSE loc' = WithBuckets(l2, BasicLoop(l2, orders)) /\ pc' = "a360_wallet"
    /\ calls' = Append(calls, "get_dropi_orders")
    /\ UNCHANGED <<name, args, result, reply, rec,
                 sessions, streams, http>>

\* lines 212-260
A360Financial ==
    /\ pc = "a360_financial"
    /\ \E raw \in FinancialReplies(loc.dropi_orders, Batch(loc.order_ids)) :
        LET r == CallMcpTool(raw)
            l == Noted(loc, "get_orders_financial_details", r)
            rows == IF r.success /\ r.data # None THEN Get(r.data, "orders", <<>>) ELSE <<>>
        IN  loc' = WithBuckets(l, BasicLoop(DetailLoop(l, rows), l.dropi_orders))
    /\ calls' = Append(calls, "get_orders_financial_details")
    /\ pc' = "a360_wallet"
    /\ UNCHANGED <<name, args, result, reply, rec,
                 sessions, streams, http>>

\* lines 267-279
A360Wallet ==
    /\ pc = "a360_wallet"
    /\ \E raw \in WalletReplies :
        LET r == CallMcpTool(raw)
            l == Noted(loc, "get_dropi_wallet_history", r)
        IN  loc' = IF r.success /\ r.data # None
                   THEN [l EXCEPT !.total_wallet_income = Get(r.data, "total_income", 0),
                                  !.total_wallet_expenses = Get(r.data, "total_expenses", 0)]
                   ELSE l
    /\ calls' = Append(calls, "get_dropi_wallet_history")
    /\ pc' = "a360_meta"
    /\ UNCHANGED <<name, args, result, reply, rec,
                 sessions, streams, http>>

\* lines 306-437: a non-numeric count or amount raises in the arithmetic
Analisis360Report(a, l) ==
    IF l.bad THEN HandlerRaise
    ELSE LET period_label == PeriodLabel(a.start_date, a.end_date)
             json_data == JsonData(period_label, l, Metrics(l))
         IN  HandlerReturn("report",
                 [json_data |-> json_data, text |-> ReportText(period_label, json_data),
                  metrics |-> Metrics(l)])

\* lines 286-437
A360Meta ==
    /\ pc = "a360_meta"
    /\ \E raw \in MetaReplies :
        LET r == CallMcpTool(raw)
            l == Noted(loc, "get_ad_spend_by_period", r)
            l2 == IF r.success /\ r.data # None
                  THEN [l EXCEPT !.meta_spend = IF r.data.numeric THEN r.data.spend ELSE 0,
                                 !.meta_clicks = IF r.data.numeric THEN r.data.clicks ELSE 0,
                                 !.meta_impressions =
                                     IF r.data.numeric THEN r.data.impressions ELSE 0,
                                 !.bad = @ \/ ~r.data.numeric]
                  ELSE l
        IN  /\ loc' = l2
            /\ Finish(Analisis360Report(args, l2))
    /\ calls' = Append(calls, "get_ad_spend_by_period")
    /\ UNCHANGED <<name, args, reply, rec,
                 sessions, streams, http>>

\* lines 487-572
ProyeccionReport(l) ==
    HandlerReturn("projection",
        Projection(l.pendientes, l.pendientes_detalle)
            @@ [failed |-> l.failed,
                escenarios |-> Escenarios(args, Projection(l.pendientes, l.pendientes_detalle))])

\* lines 461-472
PendientesOf(l, orders) ==
    [l EXCEPT !.dropi_orders = orders, !.pendientes = SelectSeq(orders, EsPendiente),
              !.order_ids = OrderIds(SelectSeq(orders, EsPendiente))]

\* lines 452-476, and lines 487-572 when no pending order has an id
PPDropi ==
    /\ pc = "pp_dropi"
    /\ \E raw \in DropiReplies :
        LET r == CallMcpTool(raw)
            l == Noted(loc, "get_dropi_orders", r)
            orders == Get(r.data, "orders", <<>>)
            pendientes == SelectSeq(orders, EsPendiente)
            l2 == PendientesOf(l, orders)
        IN  IF ~r.success
            THEN loc' = l /\ Finish(HandlerReturn("error_dropi", None))
            ELSE IF r.data = None          \* None.get: AttributeError
            THEN loc' = l /\ Finish(HandlerRaise)
            ELSE IF pendientes = <<>>
            THEN loc' = l2 /\ Finish(HandlerReturn("no_pendientes", None))
            ELSE IF OrderIds(pendientes) # <<>>
            THEN loc' = l2 /\ pc' = "pp_financial" /\ UNCHANGED result
            ELSE loc' = l2 /\ Finish(ProyeccionReport(l2))
    /\ calls' = Append(calls, "get_dropi_orders")
    /\ UNCHANGED <<name, args, reply, rec,
                 sessions, streams, http>>

\* lines 477-572
PPFinancial ==
    /\ pc = "pp_financial"
    /\ \E raw \in FinancialReplies(loc.dropi_orders, Batch(loc.order_ids)) :
        LET r == CallMcpTool(raw)
            l == Noted(loc, "get_orders_financial_details", r)
            l2 == IF r.success /\ r.data # None
                  THEN [l EXCEPT !.pendientes_detalle = Get(r.data, "orders", <<>>)]
                  ELSE l
        IN  loc' = l2 /\ Finish(ProyeccionReport(l2))
    /\ calls' = Append(calls, "get_orders_financial_details")
    /\ UNCHANGED <<name, args, reply, rec,
                 sessions, streams, http>>

\* the replies to resumen_rapido's fetches
TodayReplies == FailReplies \cup {TextReply(<<Txt>>), OkReply([total_orders |-> 2])}

WithSectionAlways(l, r, section) == [l EXCEPT !.sections = Append(@, section)]

\* a section of resumen_rapido, appended when the fetch succeeded
WithSection(l, r, section) ==
    IF r.success THEN [l EXCEPT !.sections = Append(@, section)] ELSE l

\* lines 585-592
RRShopify ==
    /\ pc = "rr_shopify"
    /\ \E raw \in TodayReplies :
        LET r == CallMcpTool(raw)
        IN  loc' = WithSection(Noted(loc, "get_total_sales_today", r), r, "SHOPIFY")
    /\ calls' = Append(calls, "get_total_sales_today")
    /\ pc' = "rr_dropi"
    /\ UNCHANGED <<name, args, result, reply, rec,
                 sessions, streams, http>>

\* lines 595-607
RRDropi ==
    /\ pc = "rr_dropi"
    /\ \E raw \in TodayReplies :
        LET r == CallMcpTool(raw)
            l == Noted(loc, "get_dropi_orders", r)
        IN  IF r.success /\ r.data = None          \* None.get: AttributeError
            THEN loc' = l /\ Finish(HandlerRaise)
            ELSE loc' = WithSection(l, r, "DROPI") /\ pc' = "rr_meta" /\ UNCHANGED result
    /\ calls' = Append(calls, "get_dropi_orders")
    /\ UNCHANGED <<name, args, reply, rec,
                 sessions, streams, http>>

\* lines 610-617
RRMeta ==
    /\ pc = "rr_meta"
    /\ \E raw \in TodayReplies :
        LET r == CallMcpTool(raw)
        IN  loc' = WithSection(Noted(loc, "get_ad_spend_today", r), r, "META")
    /\ calls' = Append(calls, "get_ad_spend_today")
    /\ pc' = "rr_wallet"
    /\ UNCHANGED <<name, args, result, reply, rec,
                 sessions, streams, http>>

\* lines 620-629
RRWallet ==
    /\ pc = "rr_wallet"
    /\ \E raw \in TodayReplies :
        LET r == CallMcpTool(raw)
            l == WithSection(Noted(loc, "get_dropi_wallet", r), r, "WALLET")
        IN  /\ loc' = l
            /\ Finish(HandlerReturn("summary", [sections |-> l.sections, failed |-> l.failed]))
    /\ calls' = Append(calls, "get_dropi_wallet")
    /\ UNCHANGED <<name, args, reply, rec,
                 sessions, streams, http>>

Next ==
    \/ ExecuteTool
    \/ A360Shopify \/ A360Dropi \/ A360Financial \/ A360Wallet \/ A360Meta
    \/ PPDropi \/ PPFinancial
    \/ RRShopify \/ RRDropi \/ RRMeta \/ RRWallet

Spec == Init /\ [][Next]_vars

(***************************************************************************)
(* Specification SpecMetrics: analisis_360 from its last await on, over    *)
(* the counts and financial-detail rows the upstream can have given        *)
(***************************************************************************)
MaxRows == 3           \* most financial-detail rows of SpecMetrics
MaxCount == 2          \* largest order count of SpecMetrics

DetailRowKinds ==
    {[status |-> "ENTREGADO", profit |-> 40, shipping_cost |-> 15, paid |-> TRUE,
      payment_amount |-> 35],
     [status |-> "DELIVERED", profit |-> 70, shipping_cost |-> 15, paid |-> FALSE,
      payment_amount |-> 0],
     [status |-> "DEVOLUCION", profit |-> 40, shipping_cost |-> 0],
     [status |-> "RETURNED", profit |-> 40, shipping_cost |-> 15],
     [status |-> "CANCELADO", profit |-> 40, shipping_cost |-> 15],
     [status |-> "EN_RUTA", profit |-> 40, shipping_cost |-> 15]}

DetailRowLists == UNION {[1..n -> DetailRowKinds] : n \in 0..MaxRows}

\* the upstream's rows and basic orders: row i is the detail of order i
RowsOf(kinds)   == [i \in 1..Len(kinds) |-> kinds[i] @@ [order_id |-> i]]
OrdersOf(kinds) == [i \in 1..Len(kinds) |-> [id |-> i, status |-> kinds[i].status,
                                               profit |-> kinds[i].profit]]

\* the locals after lines 156-279 for these upstream data
LocAfterWallet(shopify, dropi, kinds) ==
    LET l == [InitLoc EXCEPT !.shopify_orders_count = shopify,
                             !.dropi_orders_count = dropi,
                             !.dropi_orders = OrdersOf(kinds),
                             !.order_ids = OrderIds(OrdersOf(kinds))]
    IN  WithBuckets(l, BasicLoop(DetailLoop(l, RowsOf(kinds)), l.dropi_orders))

InitMetrics ==
    /\ pc = "a360_meta"
    /\ name = "analisis_360"
    /\ args = [dict |-> TRUE, start_date |-> Str(<<Digit>>), end_date |-> Str(<<Digit>>)]
    /\ calls \in {<<"get_sales_by_period", "get_dropi_orders",
                    "get_orders_financial_details", "get_dropi_wallet_history">>}
    /\ \E shopify \in 0..MaxCount, dropi \in 0..MaxCount, kinds \in DetailRowLists :
           loc = LocAfterWallet(shopify, dropi, kinds)
    /\ result = Idle
    /\ reply = Idle
    /\ rec = Idle
    /\ sessions = Idle /\ streams = Idle /\ http = Idle

NextMetrics == A360Meta

SpecMetrics == InitMetrics /\ [][NextMetrics]_vars

(***************************************************************************)
(* C5                                                                      *)
(***************************************************************************)
\* core is s without its leading and trailing whitespace
IsTrimOf(core, s) ==
    \E a \in 1..(Len(s)+1) : \E b \in 0..Len(s) :
        /\ core = SubSeq(s, a, b)
        /\ \A i \in 1..(a-1) : s[i] = Ws
        /\ \A i \in (b+1)..Len(s) : s[i] = Ws
        /\ core # <<>> => (core[1] # Ws /\ core[Len(core)] # Ws)

\* r holds the marker at i (its first), the section after it runs to the next
\* marker or the end, and that section is the serialisation of data
StructuredAt(r, i, data) ==
    /\ r[i] = MARKER
    /\ \A j \in 1..(i-1) : r[j] # MARKER
    /\ \E e \in i..Len(r) :
        /\ \A j \in (i+1)..e : r[j] # MARKER
        /\ e < Len(r) => r[e+1] = MARKER
        /\ IsTrimOf(JsonDumps(data), SubSeq(r, i+1, e))

HasStructured(r) == \E i \in 1..Len(r) : \E data \in Payloads : StructuredAt(r, i, data)

Ok200(r) == r.kind = "http" /\ r.status = 200 /\ r.body = "object"

\* C5: call_mcp_tool never raises and always returns a record: HTTP 200 with a
\* marker followed by a section that parses as JSON gives success=True, data the
\* parsed JSON and text the (trimmed) part before the marker; HTTP 200 with no
\* parseable section gives success=True, data=None; a non-200 status, a body that
\* is not the JSON reply object, or a transport exception gives success=False
\* with an error string.
C5_CallMcpToolRecord ==
    pc = "called" =>
        /\ rec # Raised
        /\ rec.success \in BOOLEAN
        /\ Ok200(reply) =>
            /\ rec.success
            /\ \A i \in 1..Len(reply.result) : \A data \in Payloads :
                  StructuredAt(reply.result, i, data) =>
                      /\ rec.data = data
                      /\ IsTrimOf(rec.text, SubSeq(reply.result, 1, i-1))
            /\ ~HasStructured(reply.result) =>
                  rec.data = None /\ rec.text = reply.result
        /\ ~Ok200(reply) => (~rec.success /\ rec.error # "" /\ rec.data = None)

C5_Witness ==
    /\ pc = "called"
    /\ reply.result = <<Txt, MARKER, LBrace, Val([x |-> 2]), RBrace>>
    /\ rec.success /\ rec.data = [x |-> 2] /\ rec.text = <<Txt>>

(***************************************************************************)
(* C1, C2, C3: the handlers under upstream failures (specification Spec)   *)
(***************************************************************************)
DatesPresent ==
    /\ name \in {"analisis_360", "proyeccion_pendientes"} => args.dict
    /\ (name \in {"analisis_360", "proyeccion_pendientes"} /\ args.dict) =>
           (~Falsy(args.start_date) /\ ~Falsy(args.end_date))

Reports == {"report", "projection", "summary"}

\* the fields of the report that the failed fetches feed have their defaults
DefaultsOfFailed ==
    /\ result.what = "report" =>
        LET j == result.payload.json_data
        IN  /\ "get_sales_by_period" \in loc.failed => j.shopify_orders = 0
            /\ "get_dropi_orders" \in loc.failed =>
                   /\ j.dropi_orders = 0 /\ j.entregados = 0 /\ j.devoluciones = 0
                   /\ j.pendientes = 0 /\ j.cancelados_dropi = 0 /\ j.tasa_entrega = 0
            /\ "get_orders_financial_details" \in loc.failed =>
                   /\ j.monto_pagado = 0
                   /\ j.fletes_devoluciones = 23 * j.devoluciones
            /\ "get_dropi_wallet_history" \in loc.failed =>
                   loc.total_wallet_income = 0 /\ loc.total_wallet_expenses = 0
            /\ "get_ad_spend_by_period" \in loc.failed =>
                   j.meta_spend = 0 /\ j.roas = 0 /\ j.cpa_real = 0
    /\ result.what = "projection" =>
        ("get_orders_financial_details" \in loc.failed =>
            /\ result.payload.total_pendientes = Len(loc.pendientes)
            /\ RatEq(result.payload.ganancia_promedio, Rat(100, 1))
            /\ RatEq(result.payload.flete_promedio, Rat(23, 1)))
    /\ result.what = "summary" =>
        /\ "get_total_sales_today" \in loc.failed => ~Contains(result.payload.sections, "SHOPIFY")
        /\ "get_dropi_orders" \in loc.failed => ~Contains(result.payload.sections, "DROPI")
        /\ "get_ad_spend_today" \in loc.failed => ~Contains(result.payload.sections, "META")
        /\ "get_dropi_wallet" \in loc.failed => ~Contains(result.payload.sections, "WALLET")

\* a reply with success=True made the handler raise: no structured data where
\* the handler reads it, or a non-numeric field
RaisedOnSuccessfulReply ==
    \/ loc.bad
    \/ name \in {"proyeccion_pendientes", "resumen_rapido"} /\ "get_dropi_orders" \in loc.nodata

\* C1 as stated: with both dates present, a failed fetch never fails the report:
\* each of the three tools still returns a report whose fields fed by the failed
\* fetch are zero/default, never an error message in place of the report.
C1_FetchFailureNeverFailsReport ==
    (pc = "done" /\ name \in TOOL_HANDLERS /\ DatesPresent /\ loc.failed # {}
        /\ ~RaisedOnSuccessfulReply) =>
        (result.what \in Reports /\ DefaultsOfFailed)

\* C1 amended: the same, except that proyeccion_pendientes returns the error
\* message "Error consultando Dropi" in place of the report when (and only when)
\* its get_dropi_orders fetch failed; any other failed fetch leaves a report
\* with the defaults, and an error text comes only from a successful reply.
C1_FetchFailureDegradesExceptDropiProjection ==
    (pc = "done" /\ name \in TOOL_HANDLERS /\ DatesPresent /\ loc.failed # {}) =>
        /\ result.returned = "text"
        /\ (result.what = "error_dropi") <=>
               (name = "proyeccion_pendientes" /\ "get_dropi_orders" \in loc.failed)
        /\ (result.what = "error_text") <=>
               (RaisedOnSuccessfulReply /\ result.what # "error_dropi")
        /\ result.what \notin {"error_dropi", "error_text"} =>
               (result.what \in Reports /\ DefaultsOfFailed)
        /\ DefaultsOfFailed

C1_Witness ==
    /\ pc = "done" /\ name = "analisis_360"
    /\ loc.failed = {"get_ad_spend_by_period"}
    /\ result.what = "report"
    /\ result.payload.json_data.meta_spend = 0
    /\ result.payload.json_data.entregados = 2

\* C2: with start_date or end_date missing or empty, analisis_360 and
\* proyeccion_pendientes return the validation message and no upstream call is
\* issued at any point of the invocation.
C2_MissingDatesNoUpstreamCall ==
    (/\ name \in {"analisis_360", "proyeccion_pendientes"}
     /\ args.dict
     /\ (Falsy(args.start_date) \/ Falsy(args.end_date))) =>
        /\ calls = <<>>
        /\ pc \in {"execute_tool", "done"}
        /\ pc = "done" => (result.returned = "text" /\ result.what = "validation")

C2_Witness ==
    /\ pc = "done" /\ name = "proyeccion_pendientes"
    /\ args.dict /\ args.start_date = Str(<<Digit>>) /\ args.end_date = Str(<<>>)
    /\ result.what = "validation" /\ calls = <<>>

\* C3: execute_tool returns a text for every tool name, arguments value and
\* combination of upstream replies: an exception of a handler becomes an error
\* text, an unknown name a not-found text, and nothing propagates.
C3_ExecuteToolAlwaysReturnsText ==
    /\ pc = "done" =>
        /\ result.returned = "text"
        /\ name \notin TOOL_HANDLERS => result.what = "not_found"
        /\ (name \in TOOL_HANDLERS /\ RaisedOnSuccessfulReply) => result.what = "error_text"
        /\ (name \in {"analisis_360", "proyeccion_pendientes"} /\ ~args.dict) =>
               result.what = "error_text"

C3_Witness ==
    /\ pc = "done" /\ name = "proyeccion_pendientes"
    /\ "get_dropi_orders" \in loc.nodata
    /\ calls = <<"get_dropi_orders">>
    /\ result.returned = "text" /\ result.what = "error_text"

(***************************************************************************)
(* C4, C7: the metrics of analisis_360 (specification SpecMetrics)         *)
(***************************************************************************)
ReportDone == pc = "done" /\ result.what = "report"

Entregados == Len(loc.entregados)
Devueltos == Len(loc.devoluciones)
GananciaEntregados == Sum(Profits(loc.entregados))
FletesDevueltos == Sum(Shippings(loc.devoluciones))

\* the ratios of the report, given its ganancia_confirmada
RatiosOf(ganancia) ==
    LET m == result.payload.metrics
        j == result.payload.json_data
    IN  /\ m.profit_neto = ganancia - loc.meta_spend
        /\ j.profit_neto = ganancia - loc.meta_spend
        /\ IF loc.meta_spend = 0 THEN m.roas = Zero
           ELSE m.roas.d > 0 /\ m.roas.n * loc.meta_spend = ganancia * m.roas.d
        /\ IF Entregados = 0 THEN m.cpa_real = Zero
           ELSE m.cpa_real.d > 0 /\ m.cpa_real.n * Entregados = loc.meta_spend * m.cpa_real.d

\* C4 as stated: ganancia_confirmada is the delivered orders' profit minus the
\* returned orders' shipping_cost, also when those shipping costs are all 0;
\* profit_neto, roas and cpa_real follow from it.
C4_GananciaConfirmadaIsProfitMinusShipping ==
    ReportDone =>
        /\ result.payload.metrics.ganancia_confirmada = GananciaEntregados - FletesDevueltos
        /\ RatiosOf(GananciaEntregados - FletesDevueltos)

\* C4 amended: the returned orders' shipping costs are replaced by 23 per
\* returned order when they sum to 0 and an order was returned.
FletesEstimados ==
    IF FletesDevueltos = 0 /\ Devueltos > 0 THEN 23 * Devueltos ELSE FletesDevueltos

C4_GananciaConfirmadaWithEstimatedShipping ==
    ReportDone =>
        /\ result.payload.metrics.ganancia_confirmada = GananciaEntregados - FletesEstimados
        /\ result.payload.json_data.ganancia_confirmada = GananciaEntregados - FletesEstimados
        /\ result.payload.json_data.fletes_devoluciones = FletesEstimados
        /\ RatiosOf(GananciaEntregados - FletesEstimados)

C4_Witness ==
    /\ ReportDone
    /\ Devueltos = 2 /\ FletesDevueltos = 0
    /\ Entregados = 1 /\ loc.meta_spend = 50
    /\ result.payload.metrics.ganancia_confirmada = GananciaEntregados - 46
    /\ result.payload.metrics.roas # Zero

InPercent(q) == RatLe(Zero, q) /\ RatLe(q, Rat(100, 1))

CancelacionesTotal ==
    Max(0, loc.shopify_orders_count - loc.dropi_orders_count) + Len(loc.cancelados)

\* C7 as stated: tasa_entrega and tasa_cancelacion lie in [0,100] for all
\* non-negative counts, and each is 0 when its denominator is 0.
C7_RatesArePercentages ==
    ReportDone =>
        LET m == result.payload.metrics
        IN  /\ InPercent(m.tasa_entrega)
            /\ InPercent(m.tasa_cancelacion)
            /\ loc.dropi_orders_count = 0 => m.tasa_entrega = Zero
            /\ loc.shopify_orders_count = 0 => m.tasa_cancelacion = Zero

\* C7 amended: the rates are the stated quotients times 100, never negative and
\* 0 on a zero denominator; each lies in [0,100] exactly when its numerator does
\* not exceed its denominator.
C7_RatesArePercentagesWhenNumeratorBounded ==
    ReportDone =>
        LET m == result.payload.metrics
            dropi == loc.dropi_orders_count
            shopify == loc.shopify_orders_count
        IN  /\ m.tasa_entrega.d > 0 /\ m.tasa_cancelacion.d > 0
            /\ IF dropi = 0 THEN m.tasa_entrega = Zero
               ELSE m.tasa_entrega.n * dropi = 100 * Entregados * m.tasa_entrega.d
            /\ IF shopify = 0 THEN m.tasa_cancelacion = Zero
               ELSE m.tasa_cancelacion.n * shopify
                        = 100 * CancelacionesTotal * m.tasa_cancelacion.d
            /\ RatLe(Zero, m.tasa_entrega) /\ RatLe(Zero, m.tasa_cancelacion)
            /\ dropi > 0 => (InPercent(m.tasa_entrega) <=> Entregados <= dropi)
            /\ shopify > 0 => (InPercent(m.tasa_cancelacion) <=> CancelacionesTotal <= shopify)

C7_Witness ==
    /\ ReportDone
    /\ Entregados = 1 /\ loc.dropi_orders_count = 2
    /\ RatEq(result.payload.metrics.tasa_entrega, Rat(50, 1))
    /\ loc.shopify_orders_count = 2 /\ Len(loc.cancelados) = 1
    /\ RatEq(result.payload.metrics.tasa_cancelacion, Rat(50, 1))

(***************************************************************************)
(* Specification SpecRender: analisis_360 from its last await on, over the *)
(* date strings the caller can have sent                                   *)
(***************************************************************************)
MaxDateLen == 2        \* longest start_date or end_date, in characters

\* non-empty strings; a character is an ordinary one or the text of the marker
DateStrings == {Str(cs) : cs \in UNION {[1..n -> {Digit, MARKER}] : n \in 1..MaxDateLen}}

InitRender ==
    /\ pc = "a360_meta"
    /\ name = "analisis_360"
    /\ \E sd \in DateStrings, ed \in DateStrings :
           args = [dict |-> TRUE, start_date |-> sd, end_date |-> ed]
    /\ calls = <<"get_sales_by_period", "get_dropi_orders",
                 "get_orders_financial_details", "get_dropi_wallet_history">>
    /\ \E kinds \in {<<>>} \cup [1..1 -> DetailRowKinds] :
           loc = LocAfterWallet(Len(kinds), Len(kinds), kinds)
    /\ result = Idle
    /\ reply = Idle
    /\ rec = Idle
    /\ sessions = Idle /\ streams = Idle /\ http = Idle

NextRender == A360Meta

SpecRender == InitRender /\ [][NextRender]_vars

(***************************************************************************)
(* C6: the output convention (specification SpecRender)                    *)
(***************************************************************************)
\* C6: for all non-empty start_date and end_date the returned text contains
\* the marker, and splitting it on the marker and parsing the section after
\* the first marker, as call_mcp_tool does, yields the json_data object the
\* report was built from.
C6_ReportRoundTrips ==
    ReportDone =>
        LET text == result.payload.text
        IN  /\ Contains(text, MARKER)
            /\ ExtractJsonData(text).data = result.payload.json_data

(***************************************************************************)
(* Specification SpecProj: proyeccion_pendientes from its second await on, *)
(* over the Dropi orders the upstream can have given                       *)
(***************************************************************************)
MaxPending == 3        \* longest mixed order list of SpecProj

ProjOrderKinds ==
    {[status |-> "EN_RUTA", profit |-> p, flete |-> f] : p \in {0 - 20, 0, 60}, f \in {0, 15}}
    \cup {[status |-> "EN_RUTA", profit |-> GananciaDefault, flete |-> FleteDefault]}

\* mixed lists, and long lists of one kind around the spec's example (30
\* orders) and the batch limit
ProjOrderLists ==
    {[i \in 1..Len(ks) |-> ks[i] @@ [id |-> i]] :
        ks \in UNION {[1..n -> ProjOrderKinds] : n \in 1..MaxPending}}
    \cup {[i \in 1..n |-> [id |-> i, status |-> "PENDIENTE", profit |-> 60, flete |-> 15]] :
             n \in {30, BatchLimit, BatchLimit + 1}}

InitProj ==
    /\ pc = "pp_financial"
    /\ name = "proyeccion_pendientes"
    /\ args = [dict |-> TRUE, start_date |-> Str(<<Digit>>), end_date |-> Str(<<Digit>>)]
    /\ calls = <<"get_dropi_orders">>
    /\ \E orders \in ProjOrderLists : loc = PendientesOf(InitLoc, orders)
    /\ result = Idle
    /\ reply = Idle
    /\ rec = Idle
    /\ sessions = Idle /\ streams = Idle /\ http = Idle

NextProj == PPFinancial

SpecProj == InitProj /\ [][NextProj]_vars

(***************************************************************************)
(* C8, C9, C10: the projection (specification SpecProj)                    *)
(***************************************************************************)
ProjDone == pc = "done" /\ result.what = "projection"

\* the upstream's own figures of the pending orders
RECURSIVE SumField(_, _)
SumField(orders, f) ==
    IF orders = <<>> THEN 0 ELSE Head(orders)[f] + SumField(Tail(orders), f)

\* every pending order has an id and the detail reply carried both amounts of
\* every row it held
FullDetail ==
    /\ Len(loc.order_ids) = Len(loc.pendientes)
    /\ loc.pendientes_detalle # <<>>
    /\ \A i \in 1..Len(loc.pendientes_detalle) :
          {"profit", "shipping_cost"} \subseteq DOMAIN loc.pendientes_detalle[i]

\* C8: the 100%-delivery net is the sum of the pending orders' profits, the
\* 100%-return net minus the sum of their shipping costs, and the reported
\* count the number of pending orders, also above 50 pending orders.
C8_ScenariosCoverAllPending ==
    (ProjDone /\ FullDetail) =>
        /\ result.payload.total_pendientes = Len(loc.pendientes)
        /\ result.payload.escenario_100 = SumField(loc.pendientes, "profit")
        /\ result.payload.escenario_0 = 0 - SumField(loc.pendientes, "flete")

\* C9: the break-even is total * avgShipping / (avgProfit + avgShipping) exactly
\* when both averages are positive; then it lies strictly between 0 and total
\* and makes x * avgProfit - (total - x) * avgShipping zero; otherwise no
\* break-even is computed and nothing is divided.
C9_BreakEvenFormula ==
    ProjDone =>
        LET p == result.payload
            T == p.total_pendientes
            G == p.total_ganancia_potencial
            F == p.total_fletes_potenciales
            x == p.punto_equilibrio
        IN  /\ T > 0
            /\ p.ganancia_promedio.d > 0 /\ p.ganancia_promedio.n * T = G * p.ganancia_promedio.d
            /\ p.flete_promedio.d > 0 /\ p.flete_promedio.n * T = F * p.flete_promedio.d
            /\ p.hay_equilibrio <=> (G > 0 /\ F > 0)
            /\ p.hay_equilibrio =>
                /\ x.d > 0
                /\ x.n * (G + F) = T * F * x.d
                /\ x.n > 0 /\ x.n < T * x.d
                /\ x.n * G - (T * x.d - x.n) * F = 0
            /\ ~p.hay_equilibrio => (p.divisions = 0 /\ x = Zero)

C9_Witness ==
    /\ ProjDone
    /\ result.payload.total_pendientes = 30
    /\ RatEq(result.payload.ganancia_promedio, Rat(100, 1))
    /\ RatEq(result.payload.flete_promedio, Rat(23, 1))
    /\ result.payload.hay_equilibrio
    /\ RatEq(result.payload.punto_equilibrio, Rat(690, 123))

\* C10: the whole number N printed as break-even is the least number of
\* deliveries with a non-negative net: N deliveries and total - N returns lose
\* nothing, N - 1 deliveries lose money.
C10_PrintedBreakEvenIsMinimum ==
    (ProjDone /\ result.payload.hay_equilibrio) =>
        LET p == result.payload
            T == p.total_pendientes
            G == p.total_ganancia_potencial
            F == p.total_fletes_potenciales
            N == p.pedidos_equilibrio
        IN  /\ N * G - (T - N) * F >= 0
            /\ (N - 1) * G - (T - N + 1) * F < 0

(***************************************************************************)
(* C11: the degraded mode of the projection (specification SpecProj)       *)
(***************************************************************************)
\* the projection used the constants 100 and 23: no detail row was obtained
Degraded == ProjDone /\ loc.pendientes_detalle = <<>>

\* detail rows of as many orders as are pending (one batch at most), each with
\* a real profit of 100 and a real shipping cost of 23
DetalleReal100y23 ==
    [i \in 1..(IF Len(loc.pendientes) <= BatchLimit THEN Len(loc.pendientes) ELSE BatchLimit)
        |-> [order_id |-> i, profit |-> GananciaDefault, shipping_cost |-> FleteDefault]]

\* C11: a projection made from the constants 100 and 23 is distinguishable, by
\* what it returns, from the projection of the same number of pending orders
\* made from real detail rows with those averages.
C11_DegradedModeIsFlagged ==
    Degraded =>
        ProyeccionText(result.payload)
            # ProyeccionText(Projection(loc.pendientes, DetalleReal100y23))


(***************************************************************************)
(* Specification SpecScen: proyeccion_pendientes from its second await on, *)
(* over the pool sizes and the scenarios the caller can have sent          *)
(***************************************************************************)
MaxTotal == 6          \* most pending orders of SpecScen
MaxScenario == 2       \* largest count of a caller's scenario

ScenarioValues == {None} \cup {PyInt(k) : k \in (0 - 1)..MaxScenario}

\* n pending orders with ids; profits alternate so that averages have fractions
ScenOrders(n) ==
    [i \in 1..n |-> [id |-> i, status |-> "PENDIENTE",
                     profit |-> IF i % 2 = 1 THEN 60 ELSE 25, flete |-> 15]]

InitScen ==
    /\ pc = "pp_financial"
    /\ name = "proyeccion_pendientes"
    /\ \E e \in ScenarioValues, d \in ScenarioValues :
           args = [dict |-> TRUE, start_date |-> Str(<<Digit>>), end_date |-> Str(<<Digit>>),
                   escenario_entregas |-> e, escenario_devoluciones |-> d]
    /\ calls = <<"get_dropi_orders">>
    /\ \E n \in 1..MaxTotal : loc = PendientesOf(InitLoc, ScenOrders(n))
    /\ result = Idle
    /\ reply = Idle
    /\ rec = Idle
    /\ sessions = Idle /\ streams = Idle /\ http = Idle

NextScen == PPFinancial

SpecScen == InitScen /\ [][NextScen]_vars

(***************************************************************************)
(* C12: the weighted scenarios (specification SpecScen)                    *)
(***************************************************************************)
\* sc is a split of the pool of the projection p, with the net of the formula:
\* neto = entregas * avgProfit - devoluciones * avgShippingCost
IsSplit(sc, p) ==
    /\ sc.entregas >= 0 /\ sc.devoluciones >= 0
    /\ sc.entregas + sc.devoluciones = p.total_pendientes
    /\ sc.neto.d > 0
    /\ sc.neto.n * p.total_pendientes
           = sc.neto.d * (sc.entregas * p.total_ganancia_potencial
                          - sc.devoluciones * p.total_fletes_potenciales)

\* n is the floor of decimas/10 of total
IsFloorOf(n, decimas, total) == 10 * n <= decimas * total /\ decimas * total < 10 * (n + 1)

FixedScenariosAreSplits ==
    ProjDone =>
        LET p == result.payload
        IN  /\ IsSplit(p.escenarios.e80, p) /\ IsFloorOf(p.escenarios.e80.entregas, 8, p.total_pendientes)
            /\ IsSplit(p.escenarios.e60, p) /\ IsFloorOf(p.escenarios.e60.entregas, 6, p.total_pendientes)

\* C12: the 80/20, the 60/40 and the caller's scenario are each a split of the
\* pending pool (non-negative deliveries and returns that add up to
\* totalPending) whose net is deliveries * avgProfit - returns * avgShipping.
C12_ScenariosAreSplits ==
    ProjDone =>
        LET p == result.payload
        IN  /\ FixedScenariosAreSplits
            /\ \A i \in 1..Len(p.escenarios.custom) : IsSplit(p.escenarios.custom[i], p)


(***************************************************************************)
(* C13: the order of the fetches of analisis_360 (specification Spec)      *)
(***************************************************************************)
\* the fetches of analisis_360 in the order of the source
FetchOrder ==
    <<"get_sales_by_period", "get_dropi_orders", "get_orders_financial_details",
      "get_dropi_wallet_history", "get_ad_spend_by_period">>

Issued(tool) == \E i \in 1..Len(calls) : calls[i] = tool

\* a fetch is in `calls' once its await has returned: the handler is suspended
\* from the request to the reply
InAnalisis360 == name = "analisis_360" /\ pc # "execute_tool"

\* C13 as stated: every fetch is issued before the computation waits on the
\* result of any fetch, so once one reply has been received all the fetches
\* that need no order ids have been issued.
C13_FetchesAreConcurrent ==
    (InAnalisis360 /\ calls # <<>>) =>
        /\ Issued("get_sales_by_period") /\ Issued("get_dropi_orders")
        /\ Issued("get_dropi_wallet_history") /\ Issued("get_ad_spend_by_period")

\* C13 amended: the fetches are issued one after the other in the order of the
\* source, each after the reply to the one before; the financial-details
\* fetch is issued exactly when the Dropi reply holds an order with an id; the
\* report is computed only after the reply to the last fetch.
C13_FetchesAreSequential ==
    InAnalisis360 =>
        /\ calls = SelectSeq(FetchOrder, Issued)
        /\ Issued("get_dropi_orders") => Issued("get_sales_by_period")
        /\ Issued("get_dropi_wallet_history") => Issued("get_dropi_orders")
        /\ Issued("get_ad_spend_by_period") => Issued("get_dropi_wallet_history")
        /\ Issued("get_orders_financial_details") =>
              /\ Issued("get_dropi_orders")
              /\ \E i \in 1..Len(loc.dropi_orders) : HasId(loc.dropi_orders[i])
              /\ loc.order_ids = OrderIds(loc.dropi_orders)
        /\ (Issued("get_dropi_wallet_history") /\ ~Issued("get_orders_financial_details")) =>
              \A i \in 1..Len(loc.dropi_orders) : ~HasId(loc.dropi_orders[i])
        /\ (pc = "a360_financial") <=>
              (calls = SubSeq(FetchOrder, 1, 2)
               /\ \E i \in 1..Len(loc.dropi_orders) : HasId(loc.dropi_orders[i]))
        /\ (pc = "done" /\ calls # <<>>) => calls[Len(calls)] = "get_ad_spend_by_period"
        /\ Issued("get_ad_spend_by_period") => pc = "done"

C13_Witness ==
    /\ InAnalisis360 /\ ReportDone
    /\ calls = FetchOrder
    /\ Len(loc.order_ids) = 2


(***************************************************************************)
(* C14: the status buckets of analisis_360 (specification SpecMetrics)     *)
(***************************************************************************)
\* the entries of the four buckets, one after the other
AllBuckets == loc.entregados \o loc.devoluciones \o loc.pendientes \o loc.cancelados

\* how many bucket entries stand for the order with this id
TimesCounted(id) == Cardinality({k \in 1..Len(AllBuckets) : AllBuckets[k].id = id})

\* C14: every order fetched from Dropi is counted in exactly one bucket, so the
\* bucket sizes sum to the number of fetched orders.
C14_BucketsPartitionOrders ==
    ReportDone =>
        /\ Len(AllBuckets) = Len(loc.dropi_orders)
        /\ \A i \in 1..Len(loc.dropi_orders) : TimesCounted(loc.dropi_orders[i].id) = 1


(***************************************************************************)
(* Specification SpecStatus: proyeccion_pendientes from its second await   *)
(* on, over the status strings the Dropi orders can carry                  *)
(***************************************************************************)
MaxStatusOrders == 2   \* longest Dropi order list of SpecStatus

\* the statuses either handler names, in the upstream's upper case and some in
\* lower case, an unknown status and the empty one
AllStatuses ==
    {"ENTREGADO", "DELIVERED", "COMPLETADO", "DEVOLUCION", "DEVUELTO", "RETURNED",
     "NO ENTREGADO", "CANCELADO", "CANCELLED"}
    \cup EstadosPendientes
    \cup {"entregado", "devuelto", "pendiente", "NOVEDAD", ""}

StatusOrderLists ==
    {[i \in 1..Len(sts) |-> [id |-> i, status |-> sts[i], profit |-> 60, flete |-> 15]] :
        sts \in UNION {[1..n -> AllStatuses] : n \in 1..MaxStatusOrders}}

\* the lists with a pending order: for the others the handler returns at
\* line 469, before its second await
InitStatus ==
    /\ pc = "pp_financial"
    /\ name = "proyeccion_pendientes"
    /\ args = [dict |-> TRUE, start_date |-> Str(<<Digit>>), end_date |-> Str(<<Digit>>)]
    /\ calls = <<"get_dropi_orders">>
    /\ \E orders \in StatusOrderLists :
           /\ SelectSeq(orders, EsPendiente) # <<>>
           /\ loc = PendientesOf(InitLoc, orders)
    /\ result = Idle
    /\ reply = Idle
    /\ rec = Idle
    /\ sessions = Idle /\ streams = Idle /\ http = Idle

NextStatus == PPFinancial

SpecStatus == InitStatus /\ [][NextStatus]_vars

(***************************************************************************)
(* C15: the pending set of the projection (specification SpecStatus)       *)
(***************************************************************************)
InPendingSet(o) == \E k \in 1..Len(loc.pendientes) : loc.pendientes[k] = o

\* C15: an order that analisis_360 classifies as delivered, returned or
\* cancelled is never in the pending set of proyeccion_pendientes, and every
\* order that analisis_360 classifies as pending is in it.
C15_PendingSetMatchesAnalisis360 ==
    \A i \in 1..Len(loc.dropi_orders) :
        LET o == loc.dropi_orders[i]
        IN  InPendingSet(o) <=> InPendientes(o)


(***************************************************************************)
(* Specification SpecSse: the SSE sessions and one POST to                 *)
(* /messages/{session_id}, interleaved with connects and disconnects       *)
(***************************************************************************)
MaxSessions == 2       \* most SSE sessions open at a time

\* the JSON-RPC ids and methods a POST can carry
MsgIds == {None, PyInt(0), PyInt(1)}
Methods == {"initialize", "tools/list", "tools/call", "notifications/initialized"}

\* `if resp and msg_id': resp is never empty; None and 0 are falsy
Truthy(msg_id) == msg_id # None /\ msg_id # PyInt(0)

InitSse ==
    /\ pc = "messages"
    /\ name = Idle
    /\ args = Idle
    /\ calls = <<>>
    /\ loc = InitLoc
    /\ result = Idle
    /\ reply = Idle
    /\ rec = Idle
    /\ sessions = <<>>
    /\ streams = {}
    /\ \E sid \in 1..MaxSessions, id \in MsgIds, method \in Methods, tool \in {"resumen_rapido", "otra"} :
           http = [session_id |-> sid, msg_id |-> id, method |-> method, tool |-> tool,
                   registered |-> FALSE, status |-> 0, put |-> <<>>]

\* lines 666-672: sse_endpoint registers a new queue and the stream opens; the
\* id of a queue may be one that a closed session had
SseConnect ==
    /\ \E sid \in (1..MaxSessions) \ DOMAIN sessions :
           /\ sessions' = [x \in DOMAIN sessions \cup {sid} |->
                               IF x = sid THEN <<>> ELSE sessions[x]]
           /\ streams' = streams \cup {sid}
    /\ UNCHANGED <<pc, name, args, calls, loc, result, reply, rec, http>>

\* lines 673-675: the stream takes a response from its queue and sends it
SseSend ==
    /\ \E sid \in streams :
           /\ sessions[sid] # <<>>
           /\ sessions' = [sessions EXCEPT ![sid] = Tail(@)]
    /\ UNCHANGED <<pc, name, args, calls, loc, result, reply, rec, streams, http>>

\* lines 676-679: the stream is disconnected or cancelled
SseDisconnect ==
    /\ \E sid \in streams :
           /\ streams' = streams \ {sid}
           /\ sessions' = [x \in DOMAIN sessions \ {sid} |-> sessions[x]]
    /\ UNCHANGED <<pc, name, args, calls, loc, result, reply, rec, http>>

\* lines 685-689, up to `await request.json()'
MessagesCheck ==
    /\ pc = "messages"
    /\ IF http.session_id \notin DOMAIN sessions
       THEN http' = [http EXCEPT !.status = 404] /\ pc' = "responded"
       ELSE http' = [http EXCEPT !.registered = TRUE] /\ pc' = "msg_body"
    /\ UNCHANGED <<name, args, calls, loc, result, reply, rec, sessions, streams>>

\* lines 711-714; the KeyError of sessions[session_id] leaves the handler
PutAndRespond ==
    IF Truthy(http.msg_id)
    THEN IF http.session_id \in DOMAIN sessions
         THEN /\ sessions' = [sessions EXCEPT ![http.session_id] =
                                  Append(@, [id |-> http.msg_id])]
              /\ http' = [http EXCEPT !.status = 200,
                              !.put = Append(@, [session_id |-> http.session_id,
                                                 id |-> http.msg_id])]
         ELSE /\ http' = [http EXCEPT !.status = 500]
              /\ UNCHANGED sessions
    ELSE /\ http' = [http EXCEPT !.status = 200]
         /\ UNCHANGED sessions

\* lines 689-714 after `await request.json()': tools/call goes on in
\* execute_tool, the other methods answer at once
MessagesBody ==
    /\ pc = "msg_body"
    /\ IF http.method = "tools/call"
       THEN /\ pc' = "execute_tool"
            /\ name' = http.tool
            /\ args' = [dict |-> TRUE]
            /\ UNCHANGED <<sessions, http>>
       ELSE /\ pc' = "responded"
            /\ PutAndRespond
            /\ UNCHANGED <<name, args>>
    /\ UNCHANGED <<calls, loc, result, reply, rec, streams>>

\* lines 707-714, when execute_tool has returned
MessagesToolReturned ==
    /\ pc = "done"
    /\ pc' = "responded"
    /\ PutAndRespond
    /\ UNCHANGED <<name, args, calls, loc, result, reply, rec, streams>>

NextSse ==
    \/ SseConnect \/ SseSend \/ SseDisconnect
    \/ MessagesCheck \/ MessagesBody \/ MessagesToolReturned
    \/ ExecuteTool \/ RRShopify \/ RRDropi \/ RRMeta \/ RRWallet

SpecSse == InitSse /\ [][NextSse]_vars

(***************************************************************************)
(* C16: the session registry and the POST handler (specification SpecSse)  *)
(***************************************************************************)
Responded == pc = "responded"

\* a session id is registered exactly while its stream is open
RegistryMatchesStreams == DOMAIN sessions = streams

\* a POST for an absent id answers 404 and executes no tool
AbsentSessionIs404 ==
    (Responded /\ ~http.registered) =>
        http.status = 404 /\ http.put = <<>> /\ calls = <<>> /\ result = Idle

\* C16: the registry holds a session id exactly from connect to disconnect; a
\* POST for an absent id answers 404 and executes no tool; a POST with a
\* JSON-RPC id (0 included) for a registered session enqueues exactly one
\* response with that id on that session's queue and answers OK, without
\* faulting, whenever the session is disconnected.
C16_RegistryAndMessages ==
    /\ RegistryMatchesStreams
    /\ AbsentSessionIs404
    /\ http.status # 500
    /\ (Responded /\ http.registered /\ http.msg_id # None) =>
           /\ http.status = 200
           /\ http.put = <<[session_id |-> http.session_id, id |-> http.msg_id]>>


=============================================================================
